---- MODULE Spec2Model ----
(***************************************************************************)
(* duplexify: Duplex<R, W> combines a reader R and a writer W into one     *)
(* object that is Read + Write (+ BufRead when R is, + Clone when both     *)
(* are).  Every method of Duplex projects one field and forwards the call. *)
(*                                                                         *)
(* R and W are type parameters.  To exercise the adapter they are          *)
(* instantiated as in examples/stdio.rs, with in-memory ends: a BufReader   *)
(* over a byte source and a buffering writer over a sink.  The source and  *)
(* the sink can be armed with what they report when polled (ready,         *)
(* Pending, I/O failure); reader and writer count the calls they receive.  *)
(*                                                                         *)
(* Duplex implements poll_read and poll_write, poll_flush, poll_close.     *)
(* poll_read_vectored and poll_write_vectored are the provided methods of  *)
(* the Read and Write traits: they pass the first non-empty buffer to      *)
(* poll_read and poll_write.  The BufReader has a poll_read_vectored of    *)
(* its own, which fills all the buffers it is given.                       *)
(***************************************************************************)
EXTENDS Integers, Sequences, FiniteSets

VARIABLES
    init,    \* the pair <<r, w>> handed to Duplex::new
    dup,     \* live adapters: [subset of Adapters -> Duplex]
    direct,  \* per adapter: the same reader and writer driven without adapter
    inner,   \* results of into_inner: [decomposed adapters -> <<R, W>>]
    acalls,  \* per adapter: how many calls of each kind were made on it
    res,     \* the last adapter call: who, op, arg, out, and the direct out
    peek     \* per adapter: bytes obtained so far and the view last exposed

vars == <<init, dup, direct, inner, acalls, res, peek>>

\* ------------------------------------------------------------------ bounds
MaxData == 3     \* longest reader source
MaxBuf == 2      \* longest caller buffer / largest consume amount
MaxCalls == 3    \* adapter calls per behaviour
MaxVec == 2      \* buffers handed to one vectored call

\* Caller payloads: the adapter and the doubles never look at byte values, so
\* numbering the bytes 1, 2, ... shows any loss, duplication or reordering.
Payload(k) == [i \in 1..k |-> i]
Adapters == {"orig", "copy"}
Outcomes == {"ok", "pend", "fail"}
Kinds == {"read", "read_vectored", "fill_buf", "consume",
          "write", "write_vectored", "flush", "close"}

\* Capacity of the reader's internal buffer: BufReader::new allocates 8 KiB.
BufCap == 8192

\* Room in the writer double for bytes accepted and not yet flushed.
WriterCap == MaxBuf

Min(a, b) == IF a < b THEN a ELSE b

\* A vectored call comes with a list of buffers: for a read the list of their
\* lengths, for a write the list of their contents.
RECURSIVE SumSizes(_)
SumSizes(sizes) ==
    IF sizes = <<>> THEN 0 ELSE Head(sizes) + SumSizes(Tail(sizes))

\* What the provided poll_read_vectored / poll_write_vectored hand on: the
\* first buffer that is not empty, or an empty buffer when there is none.
FirstSize(sizes) ==
    IF \E i \in 1..Len(sizes) : sizes[i] > 0
    THEN sizes[CHOOSE i \in 1..Len(sizes) :
                   sizes[i] > 0 /\ \A j \in 1..(i - 1) : sizes[j] = 0]
    ELSE 0

FirstBuf(bufs) ==
    IF \E i \in 1..Len(bufs) : bufs[i] # <<>>
    THEN bufs[CHOOSE i \in 1..Len(bufs) :
                  bufs[i] # <<>> /\ \A j \in 1..(i - 1) : bufs[j] = <<>>]
    ELSE <<>>

\* The task polling adapter a; its Context is what poll_* receives as cx.
Cx(a) == IF a = "orig" THEN "cx_orig" ELSE "cx_copy"

\* ------------------------------------------------- Poll<io::Result<T>>
Pending == [tag |-> "Pending"]
ReadyOk(v) == [tag |-> "Ok", val |-> v]
ReadyErr(k) == [tag |-> "Err", kind |-> k]
Unit == <<>>

\* ------------------------------------------------- the wrapped reader R
\* A BufReader over an in-memory source.  data[1..pos] is consumed,
\* data[pos+1..filled] sits in the internal buffer.  The source is polled only
\* when that buffer is empty; next is what the source reports if it is polled
\* during the coming call.  calls counts the calls received, last is the
\* latest call with the arguments it came with, waker is the context of the
\* last poll of the source that was Pending.
NewReader(data) ==
    [data |-> data, pos |-> 0, filled |-> 0, next |-> "ok", waker |-> "none",
     calls |-> [read |-> 0, read_vectored |-> 0, fill_buf |-> 0,
               consume |-> 0],
     last |-> <<"none">>]

BufferEmpty(r) == r.pos = r.filled

\* poll_fill_buf refills an empty buffer with up to BufCap bytes.
Fill(r) ==
    IF BufferEmpty(r) THEN Min(Len(r.data), r.pos + BufCap) ELSE r.filled

\* An empty buffer and a caller buffer of at least BufCap bytes: the read goes
\* to the source directly and the internal buffer stays empty.
Bypass(r, n) == BufferEmpty(r) /\ n >= BufCap

R_poll_read(r, cx, n) ==
    LET ev == IF BufferEmpty(r) THEN r.next ELSE "ok"
        r1 == [r EXCEPT !.next = "ok", !.calls.read = @ + 1,
                        !.last = <<"read", cx, n>>]
        f == IF Bypass(r, n) THEN Min(Len(r.data), r.pos + n) ELSE Fill(r)
        k == Min(n, f - r.pos)
    IN  CASE ev = "pend" -> [st |-> [r1 EXCEPT !.waker = cx], out |-> Pending]
          [] ev = "fail" -> [st |-> r1, out |-> ReadyErr("reader_io")]
          [] OTHER -> [st |-> [r1 EXCEPT !.filled = f, !.pos = r.pos + k],
                       out |-> ReadyOk(SubSeq(r.data, r.pos + 1, r.pos + k))]

\* The reader's own vectored read.  With an empty buffer and at least BufCap
\* bytes of room in all it hands the buffers to the source, which reads into
\* the first non-empty one; otherwise it fills its buffer and copies from it
\* into the caller's buffers one after the other.
R_poll_read_vectored(r, cx, sizes) ==
    LET ev == IF BufferEmpty(r) THEN r.next ELSE "ok"
        total == SumSizes(sizes)
        r1 == [r EXCEPT !.next = "ok", !.calls.read_vectored = @ + 1,
                        !.last = <<"read_vectored", cx, sizes>>]
        f == IF Bypass(r, total)
             THEN Min(Len(r.data), r.pos + FirstSize(sizes))
             ELSE Fill(r)
        k == Min(total, f - r.pos)
    IN  CASE ev = "pend" -> [st |-> [r1 EXCEPT !.waker = cx], out |-> Pending]
          [] ev = "fail" -> [st |-> r1, out |-> ReadyErr("reader_io")]
          [] OTHER -> [st |-> [r1 EXCEPT !.filled = f, !.pos = r.pos + k],
                       out |-> ReadyOk(SubSeq(r.data, r.pos + 1, r.pos + k))]

R_poll_fill_buf(r, cx) ==
    LET ev == IF BufferEmpty(r) THEN r.next ELSE "ok"
        r1 == [r EXCEPT !.next = "ok", !.calls.fill_buf = @ + 1,
                        !.last = <<"fill_buf", cx>>]
        f == Fill(r)
    IN  CASE ev = "pend" -> [st |-> [r1 EXCEPT !.waker = cx], out |-> Pending]
          [] ev = "fail" -> [st |-> r1, out |-> ReadyErr("reader_io")]
          [] OTHER -> [st |-> [r1 EXCEPT !.filled = f],
                       out |-> ReadyOk(SubSeq(r.data, r.pos + 1, f))]

R_consume(r, amt) ==
    [st |-> [r EXCEPT !.pos = Min(r.pos + amt, r.filled),
                      !.calls.consume = @ + 1, !.last = <<"consume", amt>>],
     out |-> Unit]

R_clone(r) == r

\* ------------------------------------------------- the wrapped writer W
\* pending holds the bytes accepted and not yet flushed into sink; calls, last
\* and waker are as for the reader.
NewWriter ==
    [sink |-> <<>>, pending |-> <<>>, closed |-> FALSE, next |-> "ok",
     waker |-> "none", calls |-> [write |-> 0, flush |-> 0, close |-> 0],
     last |-> <<"none">>]

W_poll_write(w, cx, buf) ==
    LET ev == w.next
        w1 == [w EXCEPT !.next = "ok", !.calls.write = @ + 1,
                        !.last = <<"write", cx, buf>>]
        k == Min(Len(buf), WriterCap - Len(w.pending))
    IN  CASE ev = "pend" -> [st |-> [w1 EXCEPT !.waker = cx], out |-> Pending]
          [] ev = "fail" -> [st |-> w1, out |-> ReadyErr("writer_io")]
          [] w.closed -> [st |-> w1, out |-> ReadyErr("closed")]
          [] k = 0 /\ buf # <<>> ->
                [st |-> [w1 EXCEPT !.waker = cx], out |-> Pending]
          [] OTHER -> [st |-> [w1 EXCEPT !.pending = @ \o SubSeq(buf, 1, k)],
                       out |-> ReadyOk(k)]

\* The writer has no vectored write of its own: it has the provided one,
\* which is its poll_write on the first non-empty buffer.
W_poll_write_vectored(w, cx, bufs) == W_poll_write(w, cx, FirstBuf(bufs))

W_poll_flush(w, cx) ==
    LET ev == w.next
        w1 == [w EXCEPT !.next = "ok", !.calls.flush = @ + 1,
                        !.last = <<"flush", cx>>]
    IN  CASE ev = "pend" -> [st |-> [w1 EXCEPT !.waker = cx], out |-> Pending]
          [] ev = "fail" -> [st |-> w1, out |-> ReadyErr("writer_io")]
          [] OTHER -> [st |-> [w1 EXCEPT !.sink = @ \o w.pending,
                                         !.pending = <<>>],
                       out |-> ReadyOk(Unit)]

W_poll_close(w, cx) ==
    LET ev == w.next
        w1 == [w EXCEPT !.next = "ok", !.calls.close = @ + 1,
                        !.last = <<"close", cx>>]
    IN  CASE ev = "pend" -> [st |-> [w1 EXCEPT !.waker = cx], out |-> Pending]
          [] ev = "fail" -> [st |-> w1, out |-> ReadyErr("writer_io")]
          [] OTHER -> [st |-> [w1 EXCEPT !.sink = @ \o w.pending,
                                         !.pending = <<>>, !.closed = TRUE],
                       out |-> ReadyOk(Unit)]

W_clone(w) == w

\* ------------------------------------------------------------ Duplex<R, W>
Duplex_new(reader, writer) == [reader |-> reader, writer |-> writer]

Duplex_into_inner(self) == <<self.reader, self.writer>>

\* Each method returns the adapter after the call and the value returned.

Duplex_poll_read(self, cx, n) ==
    LET got == R_poll_read(self.reader, cx, n)
    IN  [st |-> [self EXCEPT !.reader = got.st], out |-> got.out]

\* Not overridden by Duplex: the provided method of the Read trait.
Duplex_poll_read_vectored(self, cx, sizes) ==
    Duplex_poll_read(self, cx, FirstSize(sizes))

\* Faulty variant: reports the whole buffer as accepted.
Mut_poll_write_all(self, cx, buf) ==
    LET got == W_poll_write(self.writer, cx, buf)
    IN  [st |-> [self EXCEPT !.writer = got.st],
         out |-> IF got.out.tag = "Ok" THEN ReadyOk(Len(buf)) ELSE got.out]

\* Faulty variant: wraps the writer's failure in an error of its own.
Mut_poll_write_wraps(self, cx, buf) ==
    LET got == W_poll_write(self.writer, cx, buf)
    IN  [st |-> [self EXCEPT !.writer = got.st],
         out |-> IF got.out.tag = "Err" THEN ReadyErr("duplex") ELSE got.out]

Duplex_poll_write(self, cx, buf) ==
    LET got == W_poll_write(self.writer, cx, buf)
    IN  [st |-> [self EXCEPT !.writer = got.st], out |-> got.out]

\* Not overridden by Duplex: the provided method of the Write trait.
Duplex_poll_write_vectored(self, cx, bufs) ==
    Duplex_poll_write(self, cx, FirstBuf(bufs))

Duplex_poll_flush(self, cx) ==
    LET got == W_poll_flush(self.writer, cx)
    IN  [st |-> [self EXCEPT !.writer = got.st], out |-> got.out]

\* Faulty variant: close forwards to the writer's flush.
Mut_poll_close_flushes(self, cx) ==
    LET got == W_poll_flush(self.writer, cx)
    IN  [st |-> [self EXCEPT !.writer = got.st], out |-> got.out]

\* Faulty variant: a writer already closed is not closed again.
Mut_poll_close_once(self, cx) ==
    LET got == W_poll_close(self.writer, cx)
    IN  IF self.writer.closed THEN [st |-> self, out |-> ReadyOk(Unit)]
        ELSE [st |-> [self EXCEPT !.writer = got.st], out |-> got.out]

Duplex_poll_close(self, cx) ==
    LET got == W_poll_close(self.writer, cx)
    IN  [st |-> [self EXCEPT !.writer = got.st], out |-> got.out]

Duplex_poll_fill_buf(self, cx) ==
    LET got == R_poll_fill_buf(self.reader, cx)
    IN  [st |-> [self EXCEPT !.reader = got.st], out |-> got.out]

\* Faulty variant: consume is not forwarded.
Mut_consume_dropped(self, amt) == [st |-> self, out |-> Unit]

Duplex_consume(self, amt) ==
    LET got == R_consume(self.reader, amt)
    IN  [st |-> [self EXCEPT !.reader = got.st], out |-> got.out]

\* Faulty variant: the duplicate gets a reader rewound to the start.
Mut_clone_rewinds(self) ==
    [reader |-> [R_clone(self.reader) EXCEPT !.pos = 0, !.filled = 0],
     writer |-> W_clone(self.writer)]

Duplex_clone(self) ==
    [reader |-> R_clone(self.reader), writer |-> W_clone(self.writer)]

\* ------------------------------------------------------------ the harness
NoCalls == [k \in Kinds |-> 0]
Total(c) ==
    c.read + c.read_vectored + c.fill_buf + c.consume
        + c.write + c.write_vectored + c.flush + c.close
CallsLeft == Total(acalls["orig"]) + Total(acalls["copy"]) < MaxCalls
Live(a) == a \in DOMAIN dup

NoPeek == [got |-> <<>>, view |-> <<>>, kept |-> TRUE]
NoCall == [who |-> "none", op |-> "new", arg |-> <<>>, ev |-> "ok",
           out |-> ReadyOk(Unit), direct |-> ReadyOk(Unit)]

\* What the backing source or sink will report at the next poll is decided
\* outside the adapter; the harness sets it on the double before each call.
ArmReader(r, ev) == [r EXCEPT !.next = ev]
ArmWriter(w, ev) == [w EXCEPT !.next = ev]
WithReader(d, ev) == [d EXCEPT !.reader = ArmReader(@, ev)]
WithWriter(d, ev) == [d EXCEPT !.writer = ArmWriter(@, ev)]

Init ==
    \E data \in {Payload(k) : k \in 0..MaxData} :
        LET r == NewReader(data)
            w == NewWriter
        IN  /\ init = <<r, w>>
            /\ dup = [a \in {"orig"} |-> Duplex_new(r, w)]
            /\ direct = [a \in Adapters |-> [reader |-> r, writer |-> w]]
            /\ inner = <<>>
            /\ acalls = [a \in Adapters |-> NoCalls]
            /\ res = NoCall
            /\ peek = [a \in Adapters |-> NoPeek]

\* Bookkeeping shared by the calls: a is the adapter, got its result, ref the
\* result of the same call made directly on the stand-alone object.
Record(a, op, arg, ev, got, ref, side) ==
    /\ dup' = [dup EXCEPT ![a] = got.st]
    /\ direct' = [direct EXCEPT ![a][side] = ref.st]
    /\ acalls' = [acalls EXCEPT ![a][op] = @ + 1]
    /\ res' = [who |-> a, op |-> op, arg |-> arg, ev |-> ev, out |-> got.out,
               direct |-> ref.out]
    /\ UNCHANGED <<init, inner>>

Read(a, n, ev) ==
    /\ Live(a) /\ CallsLeft
    /\ LET got == Duplex_poll_read(WithReader(dup[a], ev), Cx(a), n)
           ref == R_poll_read(ArmReader(direct[a].reader, ev), Cx(a), n)
       IN  /\ Record(a, "read", n, ev, got, ref, "reader")
           /\ peek' = [peek EXCEPT ![a] =
                  IF got.out.tag = "Ok"
                  THEN [@ EXCEPT !.got = @ \o got.out.val, !.view = <<>>]
                  ELSE @]

ReadVectored(a, sizes, ev) ==
    /\ Live(a) /\ CallsLeft
    /\ LET got == Duplex_poll_read_vectored(WithReader(dup[a], ev), Cx(a), sizes)
           ref == R_poll_read_vectored(ArmReader(direct[a].reader, ev), Cx(a),
                                       sizes)
       IN  /\ Record(a, "read_vectored", sizes, ev, got, ref, "reader")
           /\ peek' = [peek EXCEPT ![a] =
                  IF got.out.tag = "Ok"
                  THEN [@ EXCEPT !.got = @ \o got.out.val, !.view = <<>>]
                  ELSE @]

Write(a, buf, ev) ==
    /\ Live(a) /\ CallsLeft
    /\ LET got == Duplex_poll_write(WithWriter(dup[a], ev), Cx(a), buf)
           ref == W_poll_write(ArmWriter(direct[a].writer, ev), Cx(a), buf)
       IN  Record(a, "write", buf, ev, got, ref, "writer")
    /\ UNCHANGED peek

WriteVectored(a, bufs, ev) ==
    /\ Live(a) /\ CallsLeft
    /\ LET got == Duplex_poll_write_vectored(WithWriter(dup[a], ev), Cx(a), bufs)
           ref == W_poll_write_vectored(ArmWriter(direct[a].writer, ev), Cx(a),
                                        bufs)
       IN  Record(a, "write_vectored", bufs, ev, got, ref, "writer")
    /\ UNCHANGED peek

Flush(a, ev) ==
    /\ Live(a) /\ CallsLeft
    /\ LET got == Duplex_poll_flush(WithWriter(dup[a], ev), Cx(a))
           ref == W_poll_flush(ArmWriter(direct[a].writer, ev), Cx(a))
       IN  Record(a, "flush", <<>>, ev, got, ref, "writer")
    /\ UNCHANGED peek

Close(a, ev) ==
    /\ Live(a) /\ CallsLeft
    /\ LET got == Duplex_poll_close(WithWriter(dup[a], ev), Cx(a))
           ref == W_poll_close(ArmWriter(direct[a].writer, ev), Cx(a))
       IN  Record(a, "close", <<>>, ev, got, ref, "writer")
    /\ UNCHANGED peek

PeekBuffer(a, ev) ==
    /\ Live(a) /\ CallsLeft
    /\ LET got == Duplex_poll_fill_buf(WithReader(dup[a], ev), Cx(a))
           ref == R_poll_fill_buf(ArmReader(direct[a].reader, ev), Cx(a))
       IN  /\ Record(a, "fill_buf", <<>>, ev, got, ref, "reader")
           /\ peek' = [peek EXCEPT ![a] =
                  IF got.out.tag = "Ok" THEN [@ EXCEPT !.view = got.out.val]
                  ELSE @]

\* The caller's side of consume: it has used the first amt bytes of the view
\* it was shown.  An amt beyond that view breaks the caller's contract.
Consume(a, amt) ==
    /\ Live(a) /\ CallsLeft
    /\ LET got == Duplex_consume(dup[a], amt)
           ref == R_consume(direct[a].reader, amt)
           v == peek[a].view
       IN  /\ Record(a, "consume", amt, "ok", got, ref, "reader")
           /\ peek' = [peek EXCEPT ![a] =
                  IF amt <= Len(v)
                  THEN [@ EXCEPT !.got = @ \o SubSeq(v, 1, amt),
                                 !.view = SubSeq(v, amt + 1, Len(v))]
                  ELSE [@ EXCEPT !.kept = FALSE]]

Duplicate ==
    /\ Live("orig") /\ ~Live("copy") /\ "copy" \notin DOMAIN inner
    /\ dup' = [a \in {"orig", "copy"} |->
                   IF a = "orig" THEN dup["orig"] ELSE Duplex_clone(dup["orig"])]
    /\ direct' = [direct EXCEPT !["copy"] =
                      [reader |-> R_clone(direct["orig"].reader),
                       writer |-> W_clone(direct["orig"].writer)]]
    /\ peek' = [peek EXCEPT !["copy"] = peek["orig"]]
    /\ res' = [NoCall EXCEPT !.who = "copy", !.op = "clone"]
    /\ UNCHANGED <<init, inner, acalls>>

Decompose(a) ==
    /\ Live(a)
    /\ inner' = [b \in DOMAIN inner \cup {a} |->
                     IF b = a THEN Duplex_into_inner(dup[a]) ELSE inner[b]]
    /\ dup' = [b \in DOMAIN dup \ {a} |-> dup[b]]
    /\ res' = [NoCall EXCEPT !.who = a, !.op = "into_inner"]
    /\ UNCHANGED <<init, direct, acalls, peek>>

\* One adapter, used and then decomposed.
Next ==
    \/ \E n \in 0..MaxBuf, ev \in Outcomes : Read("orig", n, ev)
    \/ \E k \in 0..MaxBuf, ev \in Outcomes : Write("orig", Payload(k), ev)
    \/ \E ev \in Outcomes : Flush("orig", ev)
    \/ \E ev \in Outcomes : Close("orig", ev)
    \/ \E ev \in Outcomes : PeekBuffer("orig", ev)
    \/ \E amt \in 0..MaxBuf : Consume("orig", amt)
    \/ Decompose("orig")

Spec == Init /\ [][Next]_vars

\* The same, with the vectored calls of the Read and Write traits.
VecSizes == [1..MaxVec -> 0..MaxBuf]
VecBufs == {[i \in 1..MaxVec |-> Payload(s[i])] : s \in VecSizes}

NextVectored ==
    \/ Next
    \/ \E sizes \in VecSizes, ev \in Outcomes : ReadVectored("orig", sizes, ev)
    \/ \E bufs \in VecBufs, ev \in Outcomes : WriteVectored("orig", bufs, ev)

SpecVectored == Init /\ [][NextVectored]_vars

\* An adapter and its duplicate, used side by side with non-empty buffers
\* over a source and a sink that are always ready.
NextClone ==
    \/ \E a \in Adapters, n \in 1..MaxBuf : Read(a, n, "ok")
    \/ \E a \in Adapters, k \in 1..MaxBuf : Write(a, Payload(k), "ok")
    \/ \E a \in Adapters : Flush(a, "ok")
    \/ \E a \in Adapters : Close(a, "ok")
    \/ \E a \in Adapters : PeekBuffer(a, "ok")
    \/ \E a \in Adapters, amt \in 1..MaxBuf : Consume(a, amt)
    \/ Duplicate

SpecClone == Init /\ [][NextClone]_vars

\* ------------------------------------------------------------ properties
ReadKinds == {"read", "read_vectored", "fill_buf", "consume"}
WriteKinds == {"write", "write_vectored", "flush", "close"}
Reads == {"read", "read_vectored"}
Writes == {"write", "write_vectored"}
PollKinds == Kinds \ {"consume"}
IsPrefix(s, t) == Len(s) <= Len(t) /\ s = SubSeq(t, 1, Len(s))

\* The adapter's wrapped objects are in the states the same calls leave the
\* stand-alone objects in.
SameReader(a) == dup[a].reader = direct[a].reader
SameWriter(a) == dup[a].writer = direct[a].writer

C3_WriteEquivalent ==
    /\ \A a \in DOMAIN dup : SameWriter(a)
    /\ res.op \in Writes => res.out = res.direct
    /\ (res.op = "write" /\ res.out.tag = "Ok") => res.out.val <= Len(res.arg)

C3_Witness ==
    /\ res.op = "write" /\ res.out = ReadyOk(1) /\ Len(res.arg) = 2
    /\ dup["orig"].writer.pending = <<1, 1>>

\* C4: an adapter call fails exactly when the wrapped call fails, and with
\* the same failure; a sink that fails on the second write makes the second
\* Write fail with that failure and leaves the first write's bytes in place.
C4_ErrorsVerbatim ==
    /\ res.op \in PollKinds =>
        /\ (res.out.tag = "Err") = (res.direct.tag = "Err")
        /\ res.out.tag = "Err" => res.out = res.direct
    /\ (res.op \in WriteKinds /\ res.ev = "fail") =>
           res.out = ReadyErr("writer_io")
    /\ (res.op \in {"read", "read_vectored", "fill_buf"}
          /\ res.out.tag = "Err") =>
           res.ev = "fail" /\ res.out = ReadyErr("reader_io")
    /\ (res.op = "write" /\ res.ev = "fail") => SameWriter(res.who)

C4_Witness ==
    /\ res.op = "write" /\ res.out = ReadyErr("writer_io")
    /\ acalls["orig"].write = 2
    /\ acalls["orig"].flush = 0 /\ acalls["orig"].close = 0
    /\ dup["orig"].writer.pending = <<1, 2>>

\* C5: while every Consume(n) stays within the view last exposed, the bytes
\* consumed from views and the bytes returned by reads form, in order, a
\* prefix of the source that ends at the reader's position; a view starts at
\* that position; and end-of-stream is reported only when all was obtained.
C5_PeekConsumeRead ==
    \A a \in DOMAIN dup :
        LET r == dup[a].reader
            p == peek[a]
        IN  p.kept =>
              /\ IsPrefix(p.got, r.data)
              /\ r.pos = Len(p.got)
              /\ p.view = SubSeq(r.data, r.pos + 1, r.pos + Len(p.view))
              /\ (res.who = a /\ res.op = "read" /\ res.arg > 0
                    /\ res.out = ReadyOk(<<>>)) => p.got = r.data
              /\ (res.who = a /\ res.op = "read_vectored"
                    /\ SumSizes(res.arg) > 0
                    /\ res.out = ReadyOk(<<>>)) => p.got = r.data

C5_Witness ==
    /\ res.op = "read" /\ res.out = ReadyOk(<<2>>)
    /\ acalls["orig"].fill_buf = 1 /\ acalls["orig"].consume = 1
    /\ peek["orig"].kept /\ peek["orig"].got = <<1, 2>>

\* C6: Flush and Close return what the writer's flush and close return and
\* leave the writer as they leave the stand-alone writer; the reader stays
\* as its own calls left it, and a Read after Close returns what the reader
\* returns.
C6_FlushClose ==
    /\ res.op \in {"flush", "close"} =>
        /\ res.out = res.direct
        /\ SameWriter(res.who) /\ SameReader(res.who)
        /\ (res.ev = "ok") = (res.out = ReadyOk(Unit))
        /\ res.out = ReadyOk(Unit) => dup[res.who].writer.pending = <<>>
        /\ (res.op = "close" /\ res.out = ReadyOk(Unit)) =>
               dup[res.who].writer.closed
    /\ (res.op \in Reads /\ dup[res.who].writer.closed) =>
        /\ res.out = res.direct
        /\ SameReader(res.who)

C6_Witness ==
    /\ res.op = "read" /\ res.out = ReadyOk(<<1, 2>>)
    /\ dup["orig"].writer.closed /\ dup["orig"].writer.sink = <<1>>

\* C7: right after Duplicate the new adapter holds the duplicate of the
\* original's reader as reader and of its writer as writer, and the original
\* is as before; from then on each adapter's reader and writer are in the
\* states its own calls alone produce.
C7_Duplicate ==
    /\ res.op = "clone" =>
        /\ dup["copy"].reader = R_clone(dup["orig"].reader)
        /\ dup["copy"].writer = W_clone(dup["orig"].writer)
        /\ SameReader("orig") /\ SameWriter("orig")
    /\ \A a \in DOMAIN dup : SameReader(a) /\ SameWriter(a)

C7_Witness ==
    /\ DOMAIN dup = Adapters
    /\ dup["orig"].reader.pos = 0 /\ dup["copy"].reader.pos = 1
    /\ dup["orig"].writer.sink = <<1>> /\ dup["copy"].writer.sink = <<>>
    /\ dup["copy"].writer.pending = <<1>>

\* C8: the wrapped objects have received exactly as many calls of each kind
\* as were made on the adapter (one wrapped call of its kind per adapter call,
\* none of another kind, none on the other object, none again after Pending);
\* the wrapped call came with the adapter call's own arguments; and what it
\* reported, Pending included, is what the adapter returned.
WrappedCalls(c, k) == IF k \in DOMAIN c THEN c[k] ELSE 0

ExpectedLast(a) ==
    CASE res.op \in Reads \cup Writes -> <<res.op, Cx(a), res.arg>>
      [] res.op = "consume" -> <<res.op, res.arg>>
      [] OTHER -> <<res.op, Cx(a)>>

C9_Frame ==
    \A a \in DOMAIN dup \cap DOMAIN dup' :
        /\ (\E k \in ReadKinds : acalls'[a][k] # acalls[a][k]) =>
               dup'[a].writer = dup[a].writer
        /\ (\E k \in WriteKinds : acalls'[a][k] # acalls[a][k]) =>
               dup'[a].reader = dup[a].reader

C9_Separate ==
    /\ \A a \in DOMAIN dup : SameReader(a) /\ SameWriter(a)
    /\ res.op \in Kinds => res.out = res.direct

Expected(d, op, arg, ev, cx) ==
    CASE op = "read" -> R_poll_read(ArmReader(d.reader, ev), cx, arg)
      [] op = "read_vectored" ->
            R_poll_read(ArmReader(d.reader, ev), cx, FirstSize(arg))
      [] op = "write_vectored" ->
            W_poll_write(ArmWriter(d.writer, ev), cx, FirstBuf(arg))
      [] op = "fill_buf" -> R_poll_fill_buf(ArmReader(d.reader, ev), cx)
      [] op = "consume" -> R_consume(d.reader, arg)
      [] op = "write" -> W_poll_write(ArmWriter(d.writer, ev), cx, arg)
      [] op = "flush" -> W_poll_flush(ArmWriter(d.writer, ev), cx)
      [] op = "close" -> W_poll_close(ArmWriter(d.writer, ev), cx)

C10_Step ==
    (acalls' # acalls /\ res'.op \in Kinds) =>
        LET a == res'.who
            e == Expected(dup[a], res'.op, res'.arg, res'.ev, Cx(a))
        IN  /\ res'.out = e.out
            /\ IF res'.op \in ReadKinds THEN dup'[a].reader = e.st
               ELSE dup'[a].writer = e.st

C10_Stateless == [][C10_Step]_vars

C10_Witness ==
    /\ res.op = "close" /\ res.out = ReadyErr("writer_io")
    /\ acalls["orig"].close = 2 /\ dup["orig"].writer.closed

====
